---- MODULE Spec2Model ----
(***************************************************************************)
(* A model of the Python bundler (onlinejudge_verify/languages/            *)
(* python_bundle.py) and of the dependency listing of                      *)
(* onlinejudge_verify/languages/python.py.                                 *)
(*                                                                         *)
(* The bundler is a recursive program; it is modelled as a machine with an *)
(* explicit call stack.  A frame is one activation of process_imports (a   *)
(* file being visited) or of process_package (a directory being walked).   *)
(* A path is the sequence of its parts, a source text the sequence of its  *)
(* lines, a processed text the sequence of the lines str.splitlines()      *)
(* gives for it.                                                           *)
(***************************************************************************)
EXTENDS Integers, Sequences, FiniteSets, TLC

VARIABLES
    disk,       \* the file system: files (path -> source lines), dirs, ls (iterdir order)
    entry_path, \* the path handed to bundle, as the caller spells it
    pc,         \* "idle" | "running" | "done" | "failed": where PythonLanguage.bundle is
    bundler,    \* the PythonBundler object of the running call (its fields)
    stack,      \* the call stack of process_imports / process_package activations
    plans,      \* path -> processor.imports of that path's process_imports, once sorted
    trail,      \* the import nodes <<path, lineno>> in the order their visits came to
                \* the test for names seen before (visit_Import: after its loop)
    runs,       \* path -> how many times process_imports was entered for it in
                \* the running call
    err,        \* the exception a failed call raised, "" when none
    outputs,    \* the outcome of every finished bundle call, in order
    graph,      \* the import relation importlab finds: pairs <<file, file it imports>>
    cache,      \* functools.lru_cache of _python_list_depending_files: key -> list
    calls       \* the calls of list_dependencies made so far, in order of their start

bvars == <<disk, entry_path, pc, bundler, stack, plans, trail, runs, err, outputs>>
dvars == <<graph, cache, calls>>
vars == <<disk, entry_path, pc, bundler, stack, plans, trail, runs, err, outputs, graph, cache, calls>>

----------------------------------------------------------------------------
(* Bounds of the model.                                                    *)

\* the longest entry file, in lines
MaxLines == 3
\* how many times bundle is called on the same entry file
MaxCalls == 2
\* how many calls of list_dependencies are made, one after or beside another
MaxListCalls == 2

----------------------------------------------------------------------------
(* Paths and names.                                                        *)

\* basedir.resolve(), the first search root
Base == <<"/", "r">>
\* the one extra include path handed in through options
Inc == <<"/", "i">>
\* [basedir] + include_paths, the search roots bundle hands to the bundler
SearchRoots == <<Base, Inc>>
\* the value find_module returns for "no match"
None == <<"None">>

\* module.split('.')
RECURSIVE Split(_)
Split(module) ==
    LET dots == {i \in 1..Len(module) : SubSeq(module, i, i) = "."}
    IN  IF dots = {} THEN <<module>>
        ELSE LET i == CHOOSE x \in dots : \A y \in dots : x <= y
             IN  <<SubSeq(module, 1, i - 1)>> \o Split(SubSeq(module, i + 1, Len(module)))

\* Path(*parts): empty parts vanish
PathOf(parts) ==
    SelectSeq(parts, LAMBDA x : x # "")

\* Path.with_suffix('.py') on a path of module parts
WithSuffixPy(rel) ==
    [i \in 1..Len(rel) |-> IF i = Len(rel) THEN rel[i] \o ".py" ELSE rel[i]]

\* Path.parent
Parent(p) == SubSeq(p, 1, Len(p) - 1)

\* item.name.startswith('_')
IsPrivateName(name) == Len(name) > 0 /\ SubSeq(name, 1, 1) = "_"
\* item.suffix == '.py': the name ends in ".py" and is longer than that
HasSuffixPy(name) == Len(name) > 3 /\ SubSeq(name, Len(name) - 2, Len(name)) = ".py"

\* the walk the file system makes of a path, part by part from the directory
\* cur: ".." steps to the parent directory (the root is its own parent), any
\* other part steps down; the walk stops at the first place that is no
\* directory, with the parts it could not take left behind it
RECURSIVE Walk(_, _)
Walk(cur, parts) ==
    IF parts = <<>> \/ cur \notin disk.dirs THEN cur \o parts
    ELSE IF Head(parts) = ".."
         THEN Walk(IF Len(cur) > 1 THEN Parent(cur) ELSE cur, Tail(parts))
         ELSE Walk(cur \o <<Head(parts)>>, Tail(parts))
\* the place open(), is_dir() and exists() reach for a path: a relative path
\* is taken from the working directory, which is basedir, and the path is
\* walked from the root; without ".." parts the walk ends where the path says
Real(p) ==
    LET full == IF p # <<>> /\ p[1] = "/" THEN p ELSE Base \o p
    IN  IF \E i \in DOMAIN p : p[i] = ".." THEN Walk(<<"/">>, Tail(full)) ELSE full
IsFile(p) == Real(p) \in DOMAIN disk.files
IsDir(p) == Real(p) \in disk.dirs
\* Path.exists
Exists(p) == LET real == Real(p) IN real \in DOMAIN disk.files \/ real \in disk.dirs

SeqMin(S) == CHOOSE x \in S : \A y \in S : x <= y

----------------------------------------------------------------------------
(* Source lines.  Every statement of the model takes one line; an import   *)
(* node's lineno is the index of its line, its col_offset the line's col.  *)

Alias(n) == [name |-> n, asname |-> ""]
TextLine(c) == [k |-> "text", col |-> c, names |-> <<>>, module |-> "", level |-> 0]
HeadLine(c) == [k |-> "head", col |-> c, names |-> <<>>, module |-> "", level |-> 0]
\* a statement with a form feed inside a string literal, x = "p\fq": one
\* line for ast.parse, two for str.splitlines()
PageLine(c) == [k |-> "page", col |-> c, names |-> <<>>, module |-> "", level |-> 0]
ImportLine(c, ns) ==
    [k |-> "import", col |-> c, names |-> [i \in 1..Len(ns) |-> Alias(ns[i])],
     module |-> "", level |-> 0]
FromLine(c, lvl, m, ns) ==
    [k |-> "from", col |-> c, names |-> [i \in 1..Len(ns) |-> Alias(ns[i])],
     module |-> m, level |-> lvl]

IsImportNode(l) == l.k \in {"import", "from"}

\* ast.parse accepts the text: the line after a block header is deeper than
\* the header, every other line stands at column 0 or at the column of an
\* earlier line whose block is still open (no line between them is
\* shallower), and the last line is no block header
Parses(src) ==
    /\ \A i \in 1..Len(src) :
          IF i > 1 /\ src[i-1].k = "head"
          THEN src[i].col > src[i-1].col
          ELSE \/ src[i].col = 0
               \/ \E k \in 1..(i - 1) :
                      /\ src[k].col = src[i].col
                      /\ \A l \in k..(i - 1) : src[l].col >= src[i].col
    /\ Len(src) > 0 => src[Len(src)].k # "head"

----------------------------------------------------------------------------
(* Texts.  An output line is a source line (its file, whatever the         *)
(* spelling of the path it was read under, and its line number) with       *)
(* the indentation added in front of it; part is 0 for the whole line, 1   *)
(* and 2 for the pieces before and after a form feed; Blank is the empty   *)
(* line.                                                                   *)

Blank == [src |-> None, ln |-> 0, ind |-> 0, part |-> 0]

\* source.splitlines(): the lines of the file at path as str.splitlines()
\* cuts them, a line with a form feed in two
RECURSIVE SplitFrom(_, _)
SplitFrom(file, i) ==
    IF i > Len(disk.files[file]) THEN <<>>
    ELSE (IF disk.files[file][i].k = "page"
          THEN <<[src |-> file, ln |-> i, ind |-> 0, part |-> 1],
                 [src |-> file, ln |-> i, ind |-> 0, part |-> 2]>>
          ELSE <<[src |-> file, ln |-> i, ind |-> 0, part |-> 0]>>)
         \o SplitFrom(file, i + 1)
SplitLines(path) == SplitFrom(Real(path), 1)

\* '\n'.join(final_code) + '\n', seen through str.splitlines(): the text of
\* no lines at all is "\n", which splits into one empty line
JoinLines(final_code) ==
    IF final_code = <<>> THEN <<Blank>> ELSE final_code

\* the imported lines as they are, with no indent in front
IndentLinesFlat(code, col) == code

\* f"{indent}{line}" for every line of imported_code.splitlines()
IndentLines(code, col) ==
    [i \in 1..Len(code) |-> [code[i] EXCEPT !.ind = @ + col]]

\* lines[lo:hi] of the file at path, as output lines (Python's 0-based slice)
OwnLines(path, lo, hi) ==
    LET lines == SplitLines(path)
        top == IF hi < Len(lines) THEN hi ELSE Len(lines)
    IN  IF top <= lo THEN <<>> ELSE SubSeq(lines, lo + 1, top)

\* the key of processor.imports.sort
SortsBefore(x, y) ==
    \/ x.lineno < y.lineno
    \/ x.lineno = y.lineno /\ x.col < y.col

RECURSIVE InsertSorted(_, _)
InsertSorted(sorted, x) ==
    IF sorted = <<>> THEN <<x>>
    ELSE IF SortsBefore(x, sorted[Len(sorted)])
         THEN Append(InsertSorted(SubSeq(sorted, 1, Len(sorted) - 1), x), sorted[Len(sorted)])
         ELSE Append(sorted, x)

\* processor.imports.sort(key=lambda x: (x[0], x[1])), a stable sort
RECURSIVE SortImports(_)
SortImports(imports) ==
    IF imports = <<>> THEN <<>>
    ELSE InsertSorted(SortImports(SubSeq(imports, 1, Len(imports) - 1)),
                      imports[Len(imports)])

\* the splice loop of process_imports over the sorted import records
RECURSIVE SpliceFrom(_, _, _, _, _, _)
SpliceFrom(path, nlines, imports, i, last_import_line, final_code) ==
    IF i > Len(imports)
    THEN final_code \o OwnLines(path, last_import_line, nlines)
    ELSE LET e == imports[i]
             upto == final_code \o OwnLines(path, last_import_line, e.lineno - 1)
             added == IF e.dup THEN <<>> ELSE IndentLines(e.code, e.col)
         IN  SpliceFrom(path, nlines, imports, i + 1, e.lineno, upto \o added)

Splice(path, nlines, imports) ==
    JoinLines(SpliceFrom(path, nlines, imports, 1, 0, <<>>))

\* '\n'.join(code for code in package_code if code): every text ends with a
\* newline, so the joint leaves one empty line between two texts
RECURSIVE JoinPackage(_)
JoinPackage(package_code) ==
    IF package_code = <<>> THEN <<>>
    ELSE LET head == JoinPackage(SubSeq(package_code, 1, Len(package_code) - 1))
             last == package_code[Len(package_code)]
         IN  IF last = <<>> THEN head
             ELSE IF head = <<>> THEN last
             ELSE head \o <<Blank>> \o last

----------------------------------------------------------------------------
(* The bundler object and its frames.                                      *)

\* a bundler that starts with the top-level marks of the one before it
NewBundlerKeepingMarks(include_paths) ==
    [include_paths |-> include_paths,
     processed_files |-> {},
     bundled_code |-> <<>>,
     top_level_imports_paths |-> bundler.top_level_imports_paths,
     top_level_imports_modules |-> {},
     top_level_imports_from |-> <<>>]

\* PythonBundler.__init__
NewBundler(include_paths) ==
    [include_paths |-> include_paths,
     processed_files |-> {},
     bundled_code |-> <<>>,
     top_level_imports_paths |-> {},
     top_level_imports_modules |-> {},
     top_level_imports_from |-> <<>>]

\* before the first call there is no PythonBundler
NoBundler ==
    [include_paths |-> <<>>,
     processed_files |-> {},
     bundled_code |-> <<>>,
     top_level_imports_paths |-> {},
     top_level_imports_modules |-> {},
     top_level_imports_from |-> <<>>]

\* if is_top_level: self.top_level_imports_paths.add(str(path))
MarkTopLevel(b, path, is_top_level) ==
    IF is_top_level
    THEN [b EXCEPT !.top_level_imports_paths = @ \cup {path}]
    ELSE b

\* a statement is redundant as soon as it shares a name with the seen ones
SharesName(seen, new_names) == seen \cap new_names # {}

\* union = seen | new_names; before = len(seen); after = len(union);
\* before == after: the statement names nothing new
NoNewNames(seen, new_names) ==
    Cardinality(seen) = Cardinality(seen \cup new_names)

\* Path(*list(file_path.parent.parts)[:-node.level], *module.split('.'))
RelativePath(file_path, level, module) ==
    LET parent_parts == Parent(file_path)
        upto == IF Len(parent_parts) > level THEN Len(parent_parts) - level ELSE 0
    IN  PathOf(SubSeq(parent_parts, 1, upto) \o Split(module))

\* item.is_dir() and (item / '__init__.py').exists()
IsSubPackage(path) == IsDir(path) /\ Exists(path \o <<"__init__.py">>)

\* defaultdict(set).__getitem__: the value, the empty set for a new key
FromNames(b, module) ==
    IF module \in DOMAIN b.top_level_imports_from
    THEN b.top_level_imports_from[module] ELSE {}

FileFrame(path) ==
    [kind |-> "file", path |-> path, st |-> "open", pos |-> 0, ai |-> 1,
     good |-> TRUE, imports |-> <<>>, mp |-> None,
     from_import |-> FALSE, names |-> <<>>, top |-> FALSE, idx |-> 1, code |-> <<>>]

PackageFrame(path, from_import, import_names, is_top_level) ==
    [kind |-> "pkg", path |-> path, st |-> "walk", pos |-> 0, ai |-> 1,
     good |-> TRUE, imports |-> <<>>, mp |-> None,
     from_import |-> from_import, names |-> import_names, top |-> is_top_level,
     idx |-> 1, code |-> <<>>]

\* the next Import/ImportFrom node the visitor reaches, at or after line i
NextNode(src, i) ==
    LET later == {j \in i..Len(src) : IsImportNode(src[j])}
    IN  IF later = {} THEN Len(src) + 1 ELSE SeqMin(later)

Ok(stk, b) == [tag |-> "ok", stack |-> stk, b |-> b, err |-> ""]
Raise(b, e) == [tag |-> "raise", stack |-> <<>>, b |-> b, err |-> e]

\* find_module letting the last search root with a match win
find_module_last(b, module) ==
    LET rel == Split(module)
        probe(i) ==
            LET full_path == b.include_paths[i] \o WithSuffixPy(rel)
                dir_path == b.include_paths[i] \o rel
            IN  IF Exists(full_path) THEN full_path
                ELSE IF IsDir(dir_path) /\ Exists(dir_path \o <<"__init__.py">>)
                     THEN dir_path
                     ELSE None
        hits == {i \in 1..Len(b.include_paths) : probe(i) # None}
    IN  IF hits = {} THEN None
        ELSE probe(CHOOSE x \in hits : \A y \in hits : y <= x)

\* PythonBundler.find_module
find_module(b, module) ==
    LET rel == Split(module)
        probe(i) ==
            LET full_path == b.include_paths[i] \o WithSuffixPy(rel)
                dir_path == b.include_paths[i] \o rel
            IN  IF Exists(full_path) THEN full_path
                ELSE IF IsDir(dir_path) /\ Exists(dir_path \o <<"__init__.py">>)
                     THEN dir_path
                     ELSE None
        hits == {i \in 1..Len(b.include_paths) : probe(i) # None}
    IN  IF hits = {} THEN None ELSE probe(SeqMin(hits))

\* a callee hands its text back to the activation on top of stk: the rest of
\* process_module (the import record, the top-level mark) for a file being
\* visited, package_code.append for a package being walked
Deliver(stk, b, text, is_duplicate) ==
    LET n == Len(stk)
        f == stk[n]
    IN  IF f.kind = "pkg"
        THEN Ok([stk EXCEPT ![n] = [f EXCEPT !.code = Append(@, text), !.idx = @ + 1]], b)
        ELSE LET src == disk.files[Real(f.path)]
                 node == src[f.pos]
                 is_top_level == node.col = 0
                 b2 == MarkTopLevel(b, f.mp, is_top_level /\ ~is_duplicate)
                 rec == [lineno |-> f.pos, col |-> node.col, module_path |-> f.mp,
                         code |-> text, dup |-> is_duplicate]
                 f2 == [f EXCEPT !.imports = Append(@, rec),
                                 !.mp = None,
                                 !.ai = IF node.k = "import" THEN @ + 1 ELSE 1,
                                 !.pos = IF node.k = "import" THEN @
                                         ELSE NextNode(src, @ + 1)]
             IN  Ok([stk EXCEPT ![n] = f2], b2)

\* an import_file that marks the path whatever the column of the import
import_file_marking(stk, b, file_path, is_top_level) ==
    IF file_path \in b.top_level_imports_paths
    THEN Deliver(stk, b, <<>>, FALSE)
    ELSE LET b1 == MarkTopLevel(b, file_path, TRUE)
         IN  IF file_path \in b1.processed_files
             THEN IF file_path \in DOMAIN b1.bundled_code
                  THEN Deliver(stk, b1, b1.bundled_code[file_path], FALSE)
                  ELSE Raise(b1, "KeyError")
             ELSE Ok(Append(stk, FileFrame(file_path)),
                     [b1 EXCEPT !.processed_files = @ \cup {file_path}])

\* an import_file with no test of the top-level-inlined set
import_file_unmarked(stk, b, file_path, is_top_level) ==
    LET b1 == MarkTopLevel(b, file_path, is_top_level)
    IN  IF file_path \in b1.processed_files
        THEN IF file_path \in DOMAIN b1.bundled_code
             THEN Deliver(stk, b1, b1.bundled_code[file_path], FALSE)
             ELSE Raise(b1, "KeyError")
        ELSE Ok(Append(stk, FileFrame(file_path)),
                [b1 EXCEPT !.processed_files = @ \cup {file_path}])

\* an import_file whose process_file has no test of processed_files
import_file_unmemoized(stk, b, file_path, is_top_level) ==
    IF file_path \in b.top_level_imports_paths
    THEN Deliver(stk, b, <<>>, FALSE)
    ELSE Ok(Append(stk, FileFrame(file_path)),
            [MarkTopLevel(b, file_path, is_top_level)
                EXCEPT !.processed_files = @ \cup {file_path}])

\* PythonBundler.import_file, with the early part of process_file; the
\* activation on top of stk is the caller
import_file(stk, b, file_path, is_top_level) ==
    IF file_path \in b.top_level_imports_paths
    THEN Deliver(stk, b, <<>>, FALSE)
    ELSE LET b1 == MarkTopLevel(b, file_path, is_top_level)
         IN  IF file_path \in b1.processed_files
             THEN IF file_path \in DOMAIN b1.bundled_code
                  THEN Deliver(stk, b1, b1.bundled_code[file_path], FALSE)
                  ELSE Raise(b1, "KeyError")
             ELSE Ok(Append(stk, FileFrame(file_path)),
                     [b1 EXCEPT !.processed_files = @ \cup {file_path}])

\* ImportProcessor.process_module up to the call it makes
process_module(stk, b, module_path, from_import, import_names) ==
    LET n == Len(stk)
        f == stk[n]
        node == disk.files[Real(f.path)][f.pos]
        is_duplicate == module_path \in b.top_level_imports_paths
        is_top_level == node.col = 0
        stk1 == [stk EXCEPT ![n] = [f EXCEPT !.mp = module_path]]
    IN  IF is_duplicate THEN Deliver(stk1, b, <<>>, TRUE)
        ELSE IF IsDir(module_path)
             THEN Ok(Append(stk1, PackageFrame(module_path, from_import, import_names,
                                               is_top_level)), b)
             ELSE import_file(stk1, b, module_path, is_top_level)

----------------------------------------------------------------------------
(* The operations of the bundler, one action per step of the call stack.   *)

\* the entry file, in the spelling find_module gives it
Entry == Base \o <<"main.py">>

Top == stack[Len(stack)]
TopSrc == disk.files[Real(Top.path)]
TopNode == TopSrc[Top.pos]

Visiting(kind) ==
    /\ pc = "running"
    /\ stack # <<>>
    /\ Top.kind = "file"
    /\ Top.st = "visit"
    /\ Top.pos <= Len(TopSrc)
    /\ TopNode.k = kind

\* the outcome r of a step becomes the next state; an exception leaves
\* bundle with no output
Becomes(r, reached, entered) ==
    /\ trail' = trail \o reached
    /\ runs' = IF entered = None THEN runs
               ELSE (entered :> (IF entered \in DOMAIN runs THEN runs[entered] + 1 ELSE 1))
                        @@ runs
    /\ bundler' = r.b
    /\ stack' = r.stack
    /\ IF r.tag = "raise"
       THEN /\ pc' = "failed"
            /\ err' = r.err
            /\ outputs' = Append(outputs, [ok |-> FALSE, err |-> r.err, text |-> <<>>])
       ELSE UNCHANGED <<pc, err, outputs>>
    /\ UNCHANGED <<disk, entry_path, plans>>
    /\ UNCHANGED dvars

\* PythonLanguage.bundle: a new PythonBundler, update(path), and
\* process_file(path) up to the open
Bundle ==
    /\ pc \in {"idle", "done", "failed"}
    /\ Len(outputs) < MaxCalls
    /\ LET b == NewBundler(SearchRoots)
       IN  /\ bundler' = [b EXCEPT !.processed_files = @ \cup {entry_path}]
           /\ stack' = <<FileFrame(entry_path)>>
    /\ pc' = "running"
    /\ err' = ""
    /\ plans' = <<>>
    /\ trail' = <<>>
    /\ runs' = <<>>
    /\ UNCHANGED <<disk, entry_path, outputs>>
    /\ UNCHANGED dvars

\* process_file: open(file_path), file.read(), ast.parse(source), and the
\* entry into process_imports.  open walks the path from the root: the
\* first part that is no directory decides, a regular file on the way gives
\* NotADirectoryError, a missing part FileNotFoundError.  Every text of
\* the model that ast.parse rejects it rejects with IndentationError
ReadSource ==
    /\ pc = "running"
    /\ stack # <<>>
    /\ Top.kind = "file"
    /\ Top.st = "open"
    /\ LET path == Real(Top.path)
           blocked == {k \in 1..(Len(path) - 1) : SubSeq(path, 1, k) \notin disk.dirs}
           opens == blocked = {} /\ IsFile(Top.path) /\ ~IsDir(Top.path)
       IN  Becomes(IF blocked # {}
                   THEN IF SubSeq(path, 1, SeqMin(blocked)) \in DOMAIN disk.files
                        THEN Raise(bundler, "NotADirectoryError")
                        ELSE Raise(bundler, "FileNotFoundError")
                   ELSE IF IsDir(Top.path) THEN Raise(bundler, "IsADirectoryError")
                   ELSE IF ~IsFile(Top.path) THEN Raise(bundler, "FileNotFoundError")
                   ELSE IF ~Parses(TopSrc) THEN Raise(bundler, "IndentationError")
                   ELSE Ok([stack EXCEPT ![Len(stack)] =
                                [Top EXCEPT !.st = "visit", !.pos = NextNode(TopSrc, 1)]],
                           bundler),
                   <<>>,
                   IF opens /\ Parses(TopSrc) THEN Top.path ELSE None)

\* ImportProcessor.visit_Import: one alias of the loop, or the part after it
visit_Import(stk, b) ==
    LET n == Len(stk)
        f == stk[n]
        src == disk.files[Real(f.path)]
        node == src[f.pos]
    IN  IF f.ai <= Len(node.names)
        THEN LET module_path == find_module(b, node.names[f.ai].name)
             IN  IF module_path # None
                 THEN process_module(stk, b, module_path, FALSE, <<>>)
                 ELSE Ok([stk EXCEPT ![n] = [f EXCEPT !.good = FALSE, !.ai = @ + 1]], b)
        ELSE LET is_top_level == node.col = 0
                 new_names == {node.names[i].name : i \in 1..Len(node.names)}
                 union == b.top_level_imports_modules \cup new_names
                 skip == [lineno |-> f.pos, col |-> node.col, module_path |-> <<>>,
                          code |-> <<>>, dup |-> TRUE]
                 imports2 == IF ~f.good /\ NoNewNames(b.top_level_imports_modules, new_names)
                             THEN Append(f.imports, skip) ELSE f.imports
                 b2 == IF ~f.good /\ is_top_level
                       THEN [b EXCEPT !.top_level_imports_modules = union]
                       ELSE b
             IN  Ok([stk EXCEPT ![n] = [f EXCEPT !.imports = imports2, !.good = TRUE,
                                                 !.ai = 1,
                                                 !.pos = NextNode(src, f.pos + 1)]], b2)

VisitImport ==
    /\ Visiting("import")
    /\ Becomes(visit_Import(stack, bundler),
               IF Top.ai > Len(TopNode.names) THEN <<(<<Top.path, Top.pos>>)>> ELSE <<>>,
               None)

\* ImportProcessor.visit_ImportFrom
visit_ImportFrom(stk, b) ==
    LET n == Len(stk)
        f == stk[n]
        src == disk.files[Real(f.path)]
        node == src[f.pos]
    IN  IF node.level > 0
        THEN process_module(stk, b, RelativePath(f.path, node.level, node.module),
                            TRUE, node.names)
        ELSE LET module_path == find_module(b, node.module)
             IN  IF module_path # None
                 THEN process_module(stk, b, module_path, TRUE, node.names)
                 ELSE LET is_top_level == node.col = 0
                          new_names == {node.names[i].name : i \in 1..Len(node.names)}
                          seen == FromNames(b, node.module)
                          union == seen \cup new_names
                          skip == [lineno |-> f.pos, col |-> node.col,
                                   module_path |-> <<>>, code |-> <<>>, dup |-> TRUE]
                          imports2 == IF NoNewNames(seen, new_names)
                                      THEN Append(f.imports, skip) ELSE f.imports
                          from2 == [m \in DOMAIN b.top_level_imports_from \cup {node.module} |->
                                      IF m = node.module
                                      THEN (IF is_top_level THEN union ELSE seen)
                                      ELSE b.top_level_imports_from[m]]
                      IN  Ok([stk EXCEPT ![n] = [f EXCEPT !.imports = imports2,
                                                          !.pos = NextNode(src, f.pos + 1)]],
                             [b EXCEPT !.top_level_imports_from = from2])

VisitImportFrom ==
    /\ Visiting("from")
    /\ Becomes(visit_ImportFrom(stack, bundler), <<(<<Top.path, Top.pos>>)>>, None)

\* the members process_package loops over: the imported names, or iterdir()
PackageItems(f) ==
    IF f.from_import /\ \A i \in 1..Len(f.names) : f.names[i].name # "*"
    THEN [i \in 1..Len(f.names) |-> f.names[i].name]
    ELSE disk.ls[Real(f.path)]

\* PythonBundler.process_package: one round of its loop
process_package(stk, b) ==
    LET n == Len(stk)
        f == stk[n]
        item == PackageItems(f)[f.idx]
        next == Ok([stk EXCEPT ![n] = [f EXCEPT !.idx = @ + 1]], b)
    IN  IF f.from_import /\ \A i \in 1..Len(f.names) : f.names[i].name # "*"
        THEN LET module_path == find_module(b, item)
             IN  IF module_path # None
                 THEN import_file(stk, b, module_path, f.top)
                 ELSE next
        ELSE LET path == f.path \o <<item>>
             IN  IF IsFile(path) /\ HasSuffixPy(item) /\ ~IsPrivateName(item)
                 THEN import_file(stk, b, path, f.top)
                 ELSE IF IsSubPackage(path)
                      THEN Ok(Append(stk, PackageFrame(path, f.from_import, f.names, f.top)), b)
                      ELSE next

PackageStep ==
    /\ pc = "running"
    /\ stack # <<>>
    /\ Top.kind = "pkg"
    /\ Top.idx <= Len(PackageItems(Top))
    /\ Becomes(process_package(stack, bundler), <<>>, None)

\* process_package: its return, into process_module or an outer package
PackageReturn ==
    /\ pc = "running"
    /\ stack # <<>>
    /\ Top.kind = "pkg"
    /\ Top.idx > Len(PackageItems(Top))
    /\ Becomes(Deliver(SubSeq(stack, 1, Len(stack) - 1), bundler,
                       JoinPackage(Top.code), FALSE),
               <<>>, None)

\* process_imports from the sort on, the store of process_file, and the
\* return of import_file into its caller
ProcessImportsReturn ==
    /\ pc = "running"
    /\ stack # <<>>
    /\ Top.kind = "file"
    /\ Top.st = "visit"
    /\ Top.pos > Len(TopSrc)
    /\ LET sorted == SortImports(Top.imports)
           text == Splice(Top.path, Len(SplitLines(Top.path)), sorted)
           b2 == [bundler EXCEPT !.bundled_code = (Top.path :> text) @@ @]
           rest == SubSeq(stack, 1, Len(stack) - 1)
           r == IF rest = <<>> THEN Ok(rest, b2) ELSE Deliver(rest, b2, text, FALSE)
       IN  /\ bundler' = r.b
           /\ stack' = r.stack
           /\ plans' = (Top.path :> sorted) @@ plans
    /\ UNCHANGED <<disk, entry_path, pc, trail, runs, err, outputs>>
    /\ UNCHANGED dvars

\* PythonBundler.update: return self.bundled_code[path].encode()
UpdateReturn ==
    /\ pc = "running"
    /\ stack = <<>>
    /\ pc' = "done"
    /\ outputs' = Append(outputs, [ok |-> TRUE, err |-> "",
                                   text |-> bundler.bundled_code[entry_path]])
    /\ UNCHANGED <<disk, entry_path, bundler, stack, plans, trail, runs, err>>
    /\ UNCHANGED dvars

----------------------------------------------------------------------------
(* The file systems the model is run on.  basedir holds main.py and up to  *)
(* two modules a.py and b.py; a name with no file is an external module.   *)
(* One layout adds the package p with a sub-package q, and a module under  *)
(* the second search root.                                                 *)

T0 == TextLine(0)
T1 == TextLine(1)
H0 == HeadLine(0)
P0 == PageLine(0)

MkDisk(files, dirs, ls) == [files |-> files, dirs |-> dirs, ls |-> ls]

PlainDirs == {<<"/">>, Base, Inc}
PlainLs == (<<"/">> :> <<"i", "r">>) @@ (Base :> <<"a.py", "b.py", "main.py">>)
               @@ (Inc :> <<>>)

\* every text of at most MaxLines lines over the alphabet that parses
EntryTexts(alphabet) ==
    {s \in UNION {[1..k -> alphabet] : k \in 0..MaxLines} : Parses(s)}

\* local modules only: inlining, duplicates, nesting, cycles
AlphaLocal ==
    {T0, T1, H0,
     ImportLine(0, <<"a">>), ImportLine(1, <<"a">>),
     ImportLine(0, <<"b">>), ImportLine(1, <<"b">>),
     ImportLine(0, <<"main">>)}
LocalA == {<<T0>>, <<>>, <<ImportLine(0, <<"b">>), T0>>, <<ImportLine(0, <<"main">>), T0>>}
LocalB == {<<T0>>, <<ImportLine(0, <<"a">>), T0>>, <<H0, ImportLine(1, <<"a">>)>>}
DisksLocal ==
    {MkDisk((Entry :> m) @@ (Base \o <<"a.py">> :> a) @@ (Base \o <<"b.py">> :> b),
            PlainDirs, PlainLs) :
        m \in EntryTexts(AlphaLocal), a \in LocalA, b \in LocalB}

\* import statements of external modules b and e, alone or beside local a
AlphaExt ==
    {T0, H0,
     ImportLine(0, <<"b">>), ImportLine(0, <<"e">>), ImportLine(0, <<"b", "e">>),
     ImportLine(0, <<"a", "b">>), ImportLine(0, <<"a">>),
     ImportLine(1, <<"b">>), ImportLine(1, <<"b", "e">>)}
ExtA == {<<T0>>, <<ImportLine(0, <<"b">>), T0>>}
DisksExt ==
    {MkDisk((Entry :> m) @@ (Base \o <<"a.py">> :> a),
            PlainDirs, PlainLs) :
        m \in EntryTexts(AlphaExt), a \in ExtA}

\* from-imports of external modules b and e, and of the local module a
AlphaFrom ==
    {T0, H0,
     FromLine(0, 0, "e", <<"f">>), FromLine(0, 0, "e", <<"g">>),
     FromLine(0, 0, "e", <<"f", "g">>), FromLine(0, 0, "b", <<"f">>),
     FromLine(1, 0, "e", <<"f">>), FromLine(1, 0, "e", <<"f", "g">>),
     FromLine(0, 0, "a", <<"f">>)}
FromA == {<<T0>>, <<FromLine(0, 0, "e", <<"f">>), T0>>}
DisksFrom ==
    {MkDisk((Entry :> m) @@ (Base \o <<"a.py">> :> a),
            PlainDirs, PlainLs) :
        m \in EntryTexts(AlphaFrom), a \in FromA}

\* the package p (members m.py, _h.py, sub-package q) and b.py, which is
\* found under the second search root only
Pkg == Base \o <<"p">>
SubPkg == Pkg \o <<"q">>
\* package_path.iterdir() gives the entries of p in the order of the file
\* system, which is any order; __init__.py and _h.py are passed over, so the
\* two listings here are the two orders in which m.py and q can come
PkgListings == {<<"__init__.py", "_h.py", "m.py", "q">>,
                <<"q", "_h.py", "__init__.py", "m.py">>}
MkPkgDisk(m, pm, lsp) ==
    MkDisk((Entry :> m) @@ (Base \o <<"a.py">> :> <<T0>>)
               @@ (Inc \o <<"b.py">> :> <<T0>>)
               @@ (Pkg \o <<"__init__.py">> :> <<>>)
               @@ (Pkg \o <<"m.py">> :> pm)
               @@ (Pkg \o <<"_h.py">> :> <<T0>>)
               @@ (SubPkg \o <<"__init__.py">> :> <<>>)
               @@ (SubPkg \o <<"n.py">> :> <<T0>>),
           PlainDirs \cup {Pkg, SubPkg},
           (<<"/">> :> <<"i", "r">>) @@ (Base :> <<"a.py", "main.py", "p">>)
               @@ (Inc :> <<"b.py">>)
               @@ (Pkg :> lsp)
               @@ (SubPkg :> <<"__init__.py", "n.py">>))

\* imports of the package
AlphaPkg ==
    {T0, H0,
     ImportLine(0, <<"p">>), ImportLine(1, <<"p">>), ImportLine(0, <<"p.m">>),
     FromLine(0, 0, "p", <<"*">>), FromLine(0, 0, "p", <<"a", "m">>),
     ImportLine(0, <<"a">>)}
PkgM == {<<T0>>, <<FromLine(0, 1, "", <<"a">>), T0>>}
DisksPkg ==
    {MkPkgDisk(m, pm, lsp) : m \in EntryTexts(AlphaPkg), pm \in PkgM, lsp \in PkgListings}

\* relative imports, in the entry file and in the package member m.py
AlphaRel ==
    {T0, ImportLine(0, <<"p">>), FromLine(0, 1, "", <<"a">>), FromLine(0, 1, "p", <<"a">>)}
RelM == {<<T0>>, <<FromLine(0, 2, "r", <<"a">>), T0>>, <<FromLine(0, 1, "p", <<"b">>), T0>>,
         <<FromLine(0, 1, "x", <<"f">>)>>, <<FromLine(0, 1, "p", <<"*">>), T0>>}
DisksRel ==
    {MkPkgDisk(m, pm, lsp) : m \in EntryTexts(AlphaRel), pm \in RelM, lsp \in PkgListings}

\* a line with a form feed in the entry file, before or after an import
AlphaPage == {T0, P0, ImportLine(0, <<"a">>)}
DisksPage ==
    {MkDisk((Entry :> m) @@ (Base \o <<"a.py">> :> <<T0>>)
                @@ (Base \o <<"b.py">> :> <<T0>>),
            PlainDirs, PlainLs) :
        m \in {t \in EntryTexts(AlphaPage) : \E i \in 1..Len(t) : t[i] = P0}}

\* both search roots in use: a.py under both roots or under the second only,
\* b.py under the second only, p a package under the first root (or a
\* directory without __init__.py there) and a file p.py under the second,
\* e under neither
DisksRoots ==
    {MkDisk((Entry :> m) @@ (Inc \o <<"a.py">> :> <<T0>>)
                @@ (Inc \o <<"b.py">> :> <<T0>>) @@ (Inc \o <<"p.py">> :> <<T0>>)
                @@ (Pkg \o <<"m.py">> :> <<T0>>)
                @@ (IF both THEN (Base \o <<"a.py">> :> <<T0>>)
                                     @@ (Pkg \o <<"__init__.py">> :> <<>>)
                    ELSE <<>>),
            PlainDirs \cup {Pkg},
            (<<"/">> :> <<"i", "r">>)
                @@ (Base :> IF both THEN <<"a.py", "main.py", "p">> ELSE <<"main.py", "p">>)
                @@ (Inc :> <<"a.py", "b.py", "p.py">>)
                @@ (Pkg :> IF both THEN <<"__init__.py", "m.py">> ELSE <<"m.py">>)) :
        m \in EntryTexts({ImportLine(0, <<"a">>), ImportLine(0, <<"b">>),
                          ImportLine(0, <<"p">>), ImportLine(0, <<"e">>)}),
        both \in BOOLEAN}

\* the statement with its first alias given "as x"
WithAsname(line, x) == [line EXCEPT !.names[1].asname = x]
\* the external module e imported with and without an alias
DisksAs ==
    {MkDisk((Entry :> m) @@ (Base \o <<"a.py">> :> <<T0>>), PlainDirs, PlainLs) :
        m \in EntryTexts({ImportLine(0, <<"e">>),
                          WithAsname(ImportLine(0, <<"e">>), "x"),
                          FromLine(0, 0, "e", <<"f">>),
                          WithAsname(FromLine(0, 0, "e", <<"f">>), "g")})}

\* files ast.parse rejects and a path open cannot walk: the entry file is any
\* text over the alphabet, parsing or not, a.py is a block header alone, and
\* x is a regular file that a relative import takes for a package
DisksBroken ==
    LET broken == {T0, T1, TextLine(2), H0, ImportLine(0, <<"a">>),
                   FromLine(0, 1, "x.y", <<"f">>)}
    IN  {MkDisk((Entry :> m) @@ (Base \o <<"a.py">> :> <<H0>>)
                    @@ (Base \o <<"b.py">> :> <<T0>>) @@ (<<"/", "x">> :> <<T0>>),
                PlainDirs,
                (<<"/">> :> <<"i", "r", "x">>) @@ (Base :> <<"a.py", "b.py", "main.py">>)
                    @@ (Inc :> <<>>)) :
            m \in UNION {[1..k -> broken] : k \in 0..MaxLines}}

\* the disks bundle is also run on with the entry file spelled relative to
\* the working directory, which is basedir: the entry file imports itself or
\* a local file that may import it back, or it imports relatively, so that
\* the package p is walked under the relative path p, and names the member
\* p.m by the search roots as well
DisksSpelled ==
    LET spelled == {T0, ImportLine(0, <<"a">>), ImportLine(0, <<"main">>)}
        members == {T0, ImportLine(0, <<"p.m">>), FromLine(0, 1, "", <<"a">>),
                    FromLine(0, 1, "p", <<"*">>)}
    IN  {d \in DisksLocal :
            \A i \in 1..Len(d.files[Entry]) : d.files[Entry][i] \in spelled}
        \cup {MkPkgDisk(m, pm, lsp) :
                  m \in EntryTexts(members), pm \in RelM, lsp \in PkgListings}

\* the disks bundle is run on with the entry file spelled "../r/main.py"
DisksUp ==
    {MkPkgDisk(m, <<T0>>, lsp) :
        m \in EntryTexts({T0, ImportLine(0, <<"main">>), FromLine(0, 1, "", <<"a">>),
                          FromLine(0, 1, "p", <<"*">>)}),
        lsp \in PkgListings}

Disks == DisksLocal \cup DisksExt \cup DisksFrom \cup DisksPkg \cup DisksRel
             \cup DisksPage \cup DisksRoots \cup DisksAs \cup DisksBroken

----------------------------------------------------------------------------
(* The bundler's specification.                                            *)

\* bundle is handed the entry file under its resolved path, as the relative
\* path main.py or as ../r/main.py; the relative spellings are run where
\* they can lead to another outcome: where an import can resolve to the
\* entry file and where the entry file has relative imports
Init ==
    /\ \/ disk \in Disks /\ entry_path = Entry
       \/ disk \in DisksSpelled /\ entry_path = <<"main.py">>
       \/ disk \in DisksUp /\ entry_path = <<"..", "r", "main.py">>
    /\ pc = "idle"
    /\ bundler = NoBundler
    /\ stack = <<>>
    /\ plans = <<>>
    /\ trail = <<>>
    /\ runs = <<>>
    /\ err = ""
    /\ outputs = <<>>
    /\ graph = {}
    /\ cache = <<>>
    /\ calls = <<>>

Next ==
    \/ Bundle
    \/ ReadSource
    \/ VisitImport
    \/ VisitImportFrom
    \/ PackageStep
    \/ PackageReturn
    \/ ProcessImportsReturn
    \/ UpdateReturn

Spec == Init /\ [][Next]_vars

----------------------------------------------------------------------------
(* The dependency lister: PythonLanguage.list_dependencies and the cached  *)
(* _python_list_depending_files.  importlab is outside the repository: its *)
(* ImportGraph is the relation graph, its deps_list() the pairs of every   *)
(* file reachable from the entry with the files that file imports.         *)

\* the files importlab can name
MainIn == Base \o <<"main.py">>
MainOut == <<"/", "x", "t.py">>
DepA == Base \o <<"a.py">>
DepB == Base \o <<"lib", "b.py">>
DepInit == Base \o <<"lib", "__init__.py">>
DepTextwrap == Base \o <<"textwrap.py">>
DepExt == <<"/", "x", "ext.py">>
DepOs == <<"/", "usr", "os.py">>
DepFiles == {DepA, DepB, DepInit, DepTextwrap, DepExt, DepOs}

\* the spellings of the entry path a caller hands in; "../r/main.py" is
\* relative to the working directory and names main.py by way of its parent
EntrySpellings == {MainIn, <<"..", "r", "main.py">>, MainOut}

\* os.path.normpath on an absolute path: a ".." part takes the part before
\* it away, at the root it vanishes
RECURSIVE Normal(_, _)
Normal(done, parts) ==
    IF parts = <<>> THEN done
    ELSE IF Head(parts) = ".."
         THEN Normal(IF Len(done) > 1 THEN Parent(done) ELSE done, Tail(parts))
         ELSE Normal(done \o <<Head(parts)>>, Tail(parts))
\* Path.resolve(): a relative path is taken from the working directory,
\* which is basedir when the tool runs, and the ".." parts are removed
Resolve(path) ==
    IF path[1] = "/" THEN Normal(<<"/">>, Tail(path)) ELSE Normal(Base, path)

\* Path.name, Path.stem and Path.parents
Name(path) == path[Len(path)]
Stem(path) ==
    LET name == Name(path)
        dots == {i \in 1..Len(name) : SubSeq(name, i, i) = "."}
        last == CHOOSE i \in dots : \A j \in dots : j <= i
    IN  IF dots # {} /\ 1 < last /\ last < Len(name)
        THEN SubSeq(name, 1, last - 1)
        ELSE name
Parents(path) == {SubSeq(path, 1, k) : k \in 1..(Len(path) - 1)}

\* sys.builtin_module_names and the keys of sys.modules, as far as the model
\* has names for them
LoadedModules == {"sys", "os", "textwrap"}

\* is_builtin_module
is_builtin_module(module_name) ==
    module_name \in LoadedModules

\* the lists that hold every member of S once: the orders in which a set or
\* a graph can be listed
Orders(S) ==
    LET n == Cardinality(S)
    IN  {s \in [1..n -> S] : \A i \in 1..n : \A j \in 1..(i - 1) : s[i] # s[j]}

RECURSIVE ReachFrom(_, _)
ReachFrom(g, seen) ==
    LET more == seen \cup {e[2] : e \in {e \in g : e[1] \in seen}}
    IN  IF more = seen THEN seen ELSE ReachFrom(g, more)

\* the files of the graph built for an entry file
GraphNodes(g, entry) == ReachFrom(g, {entry})
DirectDeps(g, node) == {e[2] : e \in {e \in g : e[1] = node}}
\* a file of the graph imports itself through some chain
Circular(g, entry) ==
    \E n \in GraphNodes(g, entry) : n \in ReachFrom(g, DirectDeps(g, n))

\* res_graph.deps_list(): (node, deps) for every file of the graph.  The
\* order of the nodes and of each node's deps is importlab's: every list
\* it can return
RECURSIVE PairLists(_, _)
PairLists(g, nodes) ==
    IF nodes = <<>> THEN {<<>>}
    ELSE {<<<<nodes[1], deps>>>> \o rest :
            deps \in Orders(DirectDeps(g, nodes[1])), rest \in PairLists(g, Tail(nodes))}
deps_list(g, entry) ==
    UNION {PairLists(g, nodes) : nodes \in Orders(GraphNodes(g, entry))}

\* a test that lets package-init files through
KeepsInit(dep, basedir) ==
    /\ ~is_builtin_module(Stem(dep))
    /\ basedir \in Parents(Resolve(dep))

\* the test a dependency passes to be appended to res_deps
KeepsDep(dep, basedir) ==
    /\ ~is_builtin_module(Stem(dep))
    /\ basedir \in Parents(Resolve(dep))
    /\ Name(dep) # "__init__.py"

\* the loop over node_deps_pairs
RECURSIVE CollectDeps(_, _, _)
CollectDeps(node_deps_pairs, basedir, res_deps) ==
    IF node_deps_pairs = <<>> THEN res_deps
    ELSE LET deps == node_deps_pairs[1][2]
             kept == SelectSeq(deps, LAMBDA dep : KeepsDep(dep, basedir))
         IN  CollectDeps(Tail(node_deps_pairs), basedir,
                         res_deps \o [i \in 1..Len(kept) |-> Resolve(kept[i])])

\* list(set(res_deps)): the members of res_deps once each, in the order the
\* set iterates, which follows the hashes of the paths (they change with the
\* hash seed of the process) and the order of insertion: every list that can
\* come out
ListOfSet(res_deps) ==
    Orders({res_deps[i] : i \in 1..Len(res_deps)})

\* _python_list_depending_files from the deps_list() call on: the lists it
\* can return
depending_files(g, path, basedir) ==
    LET collected == {CollectDeps(node_deps_pairs, basedir, <<Resolve(path)>>) :
                        node_deps_pairs \in deps_list(g, path)}
    IN  UNION {ListOfSet(res_deps) : res_deps \in collected}

\* the import relations the lister is run on: what main.py imports, what
\* the entry outside basedir imports, and one set of imports further down
DeeperImports ==
    {{}, {<<DepA, DepB>>}, {<<DepA, DepTextwrap>>, <<DepB, DepA>>},
     {<<DepInit, DepB>>, <<DepExt, DepA>>}, {<<DepA, MainIn>>},
     {<<DepA, DepB>>, <<DepB, DepA>>}}
Graphs ==
    {{<<MainIn, d>> : d \in direct} \cup {<<MainOut, d>> : d \in outer} \cup deeper :
        direct \in {d \in SUBSET DepFiles :
                        \/ Cardinality(d) <= 1
                        \/ Cardinality(d) = 2 /\ (DepA \in d \/ d = {DepInit, DepExt})},
        outer \in {{}, {DepA, DepOs}}, deeper \in DeeperImports}

\* depending_files for every graph and entry file of the model under the
\* basedir of the tool, worked out once
DependingFiles ==
    [g \in Graphs |-> [path \in {Resolve(e) : e \in EntrySpellings} |->
        depending_files(g, path, Base)]]

\* a lister without the cache: every call builds the graph
ListDependenciesUncached(path) ==
    /\ Len(calls) < MaxListCalls
    /\ calls' = Append(calls,
            [path |-> path, key |-> <<Resolve(path), Base>>, hit |-> FALSE,
             st |-> "await", worker |-> "running", err |-> "", named |-> None,
             deps |-> <<>>])
    /\ UNCHANGED <<graph, cache>>
    /\ UNCHANGED bvars

\* list_dependencies(path, basedir=Base): the cache lookup on the key
\* (path.resolve(), basedir), and on a miss the submit of the worker
ListDependencies(path) ==
    /\ Len(calls) < MaxListCalls
    /\ LET key == <<Resolve(path), Base>>
           hit == key \in DOMAIN cache
       IN  calls' = Append(calls,
                [path |-> path, key |-> key, hit |-> hit,
                 st |-> IF hit THEN "returned" ELSE "await",
                 worker |-> IF hit THEN "none" ELSE "running",
                 err |-> "", named |-> None,
                 deps |-> IF hit THEN cache[key] ELSE <<>>])
    /\ UNCHANGED <<graph, cache>>
    /\ UNCHANGED bvars

\* the worker thread finishes ImportGraph.create
WorkerDone(c) ==
    /\ calls[c].worker = "running"
    /\ calls' = [calls EXCEPT ![c].worker = "done"]
    /\ UNCHANGED <<graph, cache>>
    /\ UNCHANGED bvars

\* future.result(timeout=timeout) raises TimeoutError: the worker is still
\* running when the time is up
Timeout(c) ==
    /\ calls[c].st = "await"
    /\ calls[c].worker = "running"
    /\ calls' = [calls EXCEPT ![c].st = "raised", ![c].err = "timeout",
                              ![c].named = calls[c].key[1]]
    /\ UNCHANGED <<graph, cache>>
    /\ UNCHANGED bvars

\* a collection that also takes the graph of a worker that finished after
\* the call had timed out
CollectLate(c) ==
    /\ calls[c].st \in {"await", "raised"}
    /\ calls[c].worker = "done"
    /\ \E res \in DependingFiles[graph][calls[c].key[1]] :
           /\ calls' = [calls EXCEPT ![c].st = "returned", ![c].deps = res]
           /\ cache' = (calls[c].key :> res) @@ cache
    /\ UNCHANGED graph
    /\ UNCHANGED bvars

\* future.result returns the graph; deps_list(), the collection, the return
\* and the store of the result in the cache
Collect(c) ==
    /\ calls[c].st = "await"
    /\ calls[c].worker = "done"
    /\ LET entry == calls[c].key[1]
       IN  IF Circular(graph, entry)
           THEN /\ calls' = [calls EXCEPT ![c].st = "raised", ![c].err = "circular",
                                           ![c].named = entry]
                /\ UNCHANGED cache
           ELSE \E res \in DependingFiles[graph][entry] :
                    /\ calls' = [calls EXCEPT ![c].st = "returned", ![c].deps = res]
                    /\ cache' = (calls[c].key :> res) @@ cache
    /\ UNCHANGED graph
    /\ UNCHANGED bvars

InitDeps ==
    /\ graph \in Graphs
    /\ cache = <<>>
    /\ calls = <<>>
    /\ disk = MkDisk(<<>>, {}, <<>>)
    /\ entry_path = Entry
    /\ pc = "idle"
    /\ bundler = NoBundler
    /\ stack = <<>>
    /\ plans = <<>>
    /\ trail = <<>>
    /\ runs = <<>>
    /\ err = ""
    /\ outputs = <<>>

NextDeps ==
    \/ \E path \in EntrySpellings : ListDependencies(path)
    \/ \E c \in 1..Len(calls) : WorkerDone(c)
    \/ \E c \in 1..Len(calls) : Timeout(c)
    \/ \E c \in 1..Len(calls) : Collect(c)

SpecDeps == InitDeps /\ [][NextDeps]_vars

----------------------------------------------------------------------------
(* What the claims speak of.                                               *)

\* what a specifier resolves to under the search roots of bundle
Resolves(module) == find_module([include_paths |-> SearchRoots], module)

\* the source line of an import node of the trail
NodeOf(v) == disk.files[Real(v[1])][v[2]]
Reached == {trail[i] : i \in 1..Len(trail)}

Finished == pc \in {"done", "failed"}
\* the text of the call that finished last
BundleText == outputs[Len(outputs)].text

\* the files a source line imports as local files: its absolute specifiers
\* that resolve to a file
ImportedFiles(line) ==
    IF line.k = "import"
    THEN {Resolves(line.names[i].name) : i \in 1..Len(line.names)} \ {None}
    ELSE IF line.k = "from" /\ line.level = 0
         THEN {Resolves(line.module)} \ {None}
         ELSE {}
FileImports(path, target) ==
    LET src == disk.files[Real(path)]
    IN  \E i \in 1..Len(src) : target \in ImportedFiles(src[i])

\* the positions of a text that hold line ln of file src, at any indentation
Copies(text, src, ln) ==
    LET file == Real(src)
    IN  {i \in 1..Len(text) : text[i].src = file /\ text[i].ln = ln}
\* the lines of a file that are no import statements: its body
BodyLines(path) ==
    LET src == disk.files[Real(path)]
    IN  {i \in 1..Len(src) : ~IsImportNode(src[i])}

\* the column-0 statements of the entry file that import the file at path
TopLevelImportsOf(path) ==
    {i \in 1..Len(disk.files[Entry]) :
        /\ disk.files[Entry][i].col = 0
        /\ path \in ImportedFiles(disk.files[Entry][i])}

\* the local files the entry file imports at column 0 twice or more
TwiceImported ==
    {path \in DOMAIN disk.files : IsFile(path) /\ Cardinality(TopLevelImportsOf(path)) >= 2}

\* the effective column and the kind of an output line; the piece after a
\* form feed starts its own line at column 0
OutCol(o) == (IF o.part = 2 THEN 0 ELSE disk.files[o.src][o.ln].col) + o.ind
OutIsHead(o) == disk.files[o.src][o.ln].k = "head"
\* a text keeps its block structure: after a block header comes a deeper
\* line, after any other line none deeper, and the last line is no header
KeepsBlocks(text) ==
    LET t == SelectSeq(text, LAMBDA o : o.src # None)
    IN  /\ \A i \in 2..Len(t) :
              IF OutIsHead(t[i-1]) THEN OutCol(t[i]) > OutCol(t[i-1])
              ELSE OutCol(t[i]) <= OutCol(t[i-1])
        /\ Len(t) > 0 => ~OutIsHead(t[Len(t)])

----------------------------------------------------------------------------
(* C1.  Cycle safety, as claimed: when the entry file x imports a local    *)
(* file y and y imports x, or x imports itself, bundle(x) ends without an  *)
(* error.  The code raises KeyError: import_file reads bundled_code[x]     *)
(* while x is still being processed.                                       *)
EntryInCycle ==
    \/ FileImports(Entry, Entry)
    \/ \E y \in DOMAIN disk.files :
          y # Entry /\ FileImports(Entry, y) /\ FileImports(y, Entry)

C1_CycleSafety ==
    EntryInCycle => pc # "failed"

(* C2.  The dedup law as claimed: when the entry file imports the local    *)
(* module a at column 0 twice or more, every body line of a is in the      *)
(* output of a successful bundle exactly once.  The code keys its sets by  *)
(* the path as it is spelled: a member of a package walked under a         *)
(* relative path and named again by the search roots is inlined at column  *)
(* 0 once for each spelling; and an import cycle through a ends in         *)
(* KeyError (C1) instead of the one copy.                                  *)
C2_BodyExactlyOnce ==
    pc = "done" =>
        \A a \in TwiceImported : \A ln \in BodyLines(a) :
            Cardinality(Copies(BundleText, a, ln)) = 1

(* C3.  Preservation of block structure, as claimed: the files of the      *)
(* model all parse, so the output of a successful bundle keeps its blocks. *)
(* The code drops the only statement of a block when it elides an import.  *)
C3_BlockStructureKept ==
    pc = "done" => KeepsBlocks(BundleText)

----------------------------------------------------------------------------
(* Unresolved imports.  The names seen earlier are read off the trail of   *)
(* visited nodes, not off the bundler's own sets.                          *)

NamesOf(line) == {line.names[i].name : i \in 1..Len(line.names)}
\* an import statement with a name no search root has
NamesExternal(line) ==
    /\ line.k = "import"
    /\ \E n \in NamesOf(line) : Resolves(n) = None
\* a from-import of a module no search root has
FromExternal(line) ==
    /\ line.k = "from"
    /\ line.level = 0
    /\ Resolves(line.module) = None
\* a statement that names external modules only
OnlyExternal(line) ==
    \/ line.k = "import" /\ \A n \in NamesOf(line) : Resolves(n) = None
    \/ FromExternal(line)

\* the names of the column-0 unresolved statements visited before trail[k]:
\* of import statements for an import, of the from-imports of the same
\* module for a from-import
SeenBefore(k) ==
    LET line == NodeOf(trail[k])
        earlier == {j \in 1..(k - 1) :
                      LET l == NodeOf(trail[j])
                      IN  /\ l.col = 0
                          /\ IF line.k = "import" THEN NamesExternal(l)
                             ELSE FromExternal(l) /\ l.module = line.module}
    IN  UNION {NamesOf(NodeOf(trail[j])) : j \in earlier}
Subsumed(k) == NamesOf(NodeOf(trail[k])) \subseteq SeenBefore(k)

\* the file of trail[k] has its processed text
Processed(k) == trail[k][1] \in DOMAIN bundler.bundled_code
\* the statement trail[k] is a line of its file's processed text, verbatim
Kept(k) ==
    LET text == bundler.bundled_code[trail[k][1]]
    IN  \E i \in 1..Len(text) :
            text[i] = [src |-> Real(trail[k][1]), ln |-> trail[k][2], ind |-> 0, part |-> 0]

(* C4.  Containment law for externals: a visited statement that names only *)
(* external modules is left out of its file's processed text exactly when  *)
(* all its names were listed by column-0 unresolved statements visited     *)
(* before it (for a from-import: by from-imports of the same module).      *)
C4_SkippedIffSubsumed ==
    \A k \in 1..Len(trail) :
        (Processed(k) /\ OnlyExternal(NodeOf(trail[k]))) => (Kept(k) <=> ~Subsumed(k))

C4_Witness ==
    /\ pc = "done"
    /\ \E k \in 1..Len(trail) :
          /\ NodeOf(trail[k]).k = "import"
          /\ OnlyExternal(NodeOf(trail[k]))
          /\ Processed(k)
          /\ NamesOf(NodeOf(trail[k])) # SeenBefore(k)
          /\ Subsumed(k)
          /\ ~Kept(k)

(* C5.  Pass-through of externals, as claimed: a visited import statement  *)
(* that names an external module and is not subsumed stays a line of its   *)
(* file's processed text, also when it names a local module as well.  The  *)
(* code replaces the whole line by the local module's text.                *)
C5_ExternalsKept ==
    \A k \in 1..Len(trail) :
        (Processed(k) /\ NamesExternal(NodeOf(trail[k])) /\ ~Subsumed(k)) => Kept(k)

----------------------------------------------------------------------------
(* Packages and relative imports.                                          *)

\* the specifiers a statement resolves against the search roots
Specifiers(line) ==
    IF line.k = "import" THEN NamesOf(line)
    ELSE IF line.level = 0 THEN {line.module} ELSE {}
\* the visited statements with a specifier that resolves to a package
PackageNodes ==
    {v \in Reached : \E sp \in Specifiers(NodeOf(v)) : IsDir(Resolves(sp))}
\* the visited relative imports
RelativeNodes == {v \in Reached : NodeOf(v).k = "from" /\ NodeOf(v).level > 0}

\* the public source files of a directory and of its sub-packages
RECURSIVE PublicMembers(_)
PublicMembers(dir) ==
    LET items == {dir \o <<disk.ls[Real(dir)][i]>> : i \in 1..Len(disk.ls[Real(dir)])}
    IN  {f \in items : IsFile(f) /\ HasSuffixPy(Name(f)) /\ ~IsPrivateName(Name(f))}
        \cup UNION {PublicMembers(d) :
                        d \in {x \in items : IsDir(x) /\ Exists(x \o <<"__init__.py">>)}}

\* what a statement that is given the directory dir inlines: the files its
\* names resolve to, or for a plain or star import the public members
InlinedFrom(line, dir) ==
    IF line.k = "from" /\ "*" \notin NamesOf(line)
    THEN {Resolves(n) : n \in NamesOf(line)} \ {None}
    ELSE PublicMembers(dir)

(* C6, as claimed: once a statement naming a directory-style package has   *)
(* been visited, bundle fails with UnsupportedPackageImport and no output. *)
(* The code has no such error: process_package walks the directory and     *)
(* bundle returns the members' texts.                                      *)
C6_PackageImportFails ==
    (Finished /\ PackageNodes # {}) =>
        /\ pc = "failed"
        /\ err = "UnsupportedPackageImport"
        /\ BundleText = <<>>

(* C7, as claimed: once a relative import has been visited, bundle fails   *)
(* with UnsupportedRelativeImport and no output.  The code has no such     *)
(* error: it builds a path from the importing file's directory and goes on *)
(* with it, to a package walk or to the error of opening the path.         *)
C7_RelativeImportFails ==
    (Finished /\ RelativeNodes # {}) =>
        /\ pc = "failed"
        /\ err = "UnsupportedRelativeImport"
        /\ BundleText = <<>>

(* C8.  Idempotence: every call of bundle on the same entry file and the   *)
(* same files gives the same outcome, text for text.                       *)
C8_Idempotent ==
    \A i, j \in 1..Len(outputs) : outputs[i] = outputs[j]

C8_Witness ==
    /\ Len(outputs) = 2
    /\ outputs[1].ok
    /\ \E i \in 1..Len(outputs[2].text) : outputs[2].text[i].src \notin {Entry, None}
    /\ bundler.top_level_imports_paths # {}

----------------------------------------------------------------------------
(* The dependency lister.                                                  *)

Returned == {c \in 1..Len(calls) : calls[c].st = "returned"}
DepSet(c) == {calls[c].deps[i] : i \in 1..Len(calls[c].deps)}
EntryOf(c) == calls[c].key[1]
\* the files the graph of the call's entry file reports as imported
Reported(c) == UNION {DirectDeps(graph, n) : n \in GraphNodes(graph, EntryOf(c))}
\* a file strictly under basedir that is no package-init file
IsLocal(f) == Base \in Parents(f) /\ Name(f) # "__init__.py"

(* C9.  Completeness of listDependencies, as claimed: a returned result    *)
(* holds every local file of the entry file's graph, whatever its name.    *)
(* The code leaves out a local file named like a loaded module.            *)
C9_Complete ==
    \A c \in Returned :
        \A f \in GraphNodes(graph, EntryOf(c)) : IsLocal(f) => f \in DepSet(c)

(* C10.  Content of a returned result: it has no duplicates, it holds the  *)
(* entry file, every other member is a file the graph reports that lies    *)
(* under basedir, is no package-init file and is not named like a builtin  *)
(* or loaded module; with no imports in the entry file it is the entry     *)
(* file alone.                                                             *)
C10_ResultContent ==
    \A c \in Returned :
        /\ Cardinality(DepSet(c)) = Len(calls[c].deps)
        /\ Resolve(calls[c].path) \in DepSet(c)
        /\ \A f \in DepSet(c) \ {Resolve(calls[c].path)} :
              /\ f \in Reported(c)
              /\ Base \in Parents(f)
              /\ Name(f) # "__init__.py"
              /\ Stem(f) \notin LoadedModules
        /\ DirectDeps(graph, Resolve(calls[c].path)) = {} =>
              DepSet(c) = {Resolve(calls[c].path)}

C10_Witness ==
    \E c \in Returned :
        /\ EntryOf(c) = MainIn
        /\ DepInit \in Reported(c)
        /\ DepExt \in Reported(c)
        /\ DepSet(c) = {MainIn, DepA, DepB}

----------------------------------------------------------------------------
(* Timeout and cache of the dependency lister.                             *)

\* the calls that failed with the timeout error
TimedOut == {c \in 1..Len(calls) : calls[c].st = "raised" /\ calls[c].err = "timeout"}

(* C11.  Timeout of graph construction: a call whose worker is still       *)
(* running when the time is up has failed with the timeout error naming    *)
(* its entry file and holds no dependency set; from then on the call stays *)
(* failed whatever its worker does, and the cache changes only by the      *)
(* return of another call.                                                 *)
C11_TimeoutIsFinal ==
    [][\A c \in TimedOut :
          /\ calls[c].named = Resolve(calls[c].path)
          /\ calls[c].deps = <<>>
          /\ calls'[c].st = "raised"
          /\ calls'[c].err = "timeout"
          /\ calls'[c].named = calls[c].named
          /\ calls'[c].deps = <<>>
          /\ cache' # cache =>
                \E d \in (1..Len(calls)) \ {c} :
                    calls[d].st = "await" /\ calls'[d].st = "returned"]_vars

C11_Witness ==
    \E c \in TimedOut :
        /\ calls[c].worker = "done"
        /\ calls[c].key \notin DOMAIN cache
        /\ DirectDeps(graph, calls[c].key[1]) # {}

\* the calls that ran graph construction to its end and returned
Computed(key) ==
    {c \in Returned : calls[c].key = key /\ ~calls[c].hit}
\* the cache holds what a successful call for the key computed
CacheIsSound ==
    \A key \in DOMAIN cache : \E c \in Computed(key) : calls[c].deps = cache[key]
\* a call served from the cache ran no worker and returned what an earlier
\* successful call for its key returned
HitsReuse ==
    \A c \in 1..Len(calls) :
        calls[c].hit =>
            /\ calls[c].st = "returned"
            /\ calls[c].worker = "none"
            /\ \E d \in 1..(c - 1) : d \in Computed(calls[c].key)
                                      /\ calls[d].deps = calls[c].deps

(* C12, as claimed: the cache law, and for every key at most one call that *)
(* ran graph construction to its end, whatever the interleaving.           *)
C12_ComputedOnce ==
    /\ CacheIsSound
    /\ HitsReuse
    /\ \A c, d \in Returned :
          (calls[c].key = calls[d].key /\ ~calls[c].hit /\ ~calls[d].hit) => c = d

(* C12, amended.  The cache holds an entry for a key only if a call for    *)
(* that key returned, and the entry is what that call returned; a call     *)
(* that fails leaves the cache as it is; an entry never goes and always    *)
(* holds the same set of files (an overlapping call stores its own list,   *)
(* the same files, in the order its own set iterated); a call that starts  *)
(* when its key is cached returns the cached list and runs no graph        *)
(* construction, a call that starts when it is not cached runs it, so      *)
(* calls that overlap each construct the graph.                            *)
C12_CacheLaw ==
    /\ [](CacheIsSound /\ HitsReuse)
    /\ [][/\ \A key \in DOMAIN cache :
               /\ key \in DOMAIN cache'
               /\ {cache'[key][i] : i \in 1..Len(cache'[key])}
                     = {cache[key][i] : i \in 1..Len(cache[key])}
          /\ (\E c \in 1..Len(calls) : calls[c].st # "raised" /\ calls'[c].st = "raised")
                => cache' = cache
          /\ Len(calls') > Len(calls) =>
                LET new == calls'[Len(calls')]
                IN  /\ new.hit <=> new.key \in DOMAIN cache
                    /\ new.hit => new.deps = cache[new.key]
                    /\ ~new.hit => new.worker = "running"]_vars

C12_Witness ==
    \E c \in 1..Len(calls) : \E d \in 1..(c - 1) :
        /\ calls[c].hit
        /\ calls[c].path # calls[d].path
        /\ calls[d].key = calls[c].key
        /\ Len(calls[c].deps) >= 2

----------------------------------------------------------------------------
(* Memoization and the top-level-inlined set.                              *)

\* the import records made so far in the running call: those of the files
\* that are finished and those of the activations on the stack
Records ==
    UNION {{<<f, plans[f][k]>> : k \in 1..Len(plans[f])} : f \in DOMAIN plans}
        \cup UNION {{<<stack[i].path, stack[i].imports[k]>> :
                        k \in 1..Len(stack[i].imports)} :
                    i \in {j \in 1..Len(stack) : stack[j].kind = "file"}}
\* the records that inlined the text of the file p
Inlinings(p) ==
    {r \in Records : r[2].module_path = p /\ ~r[2].dup /\ r[2].code # <<>>}

(* C13.  Memoization: in one bundle call process_imports is entered at     *)
(* most once for a path, and every import record that inlined a file holds *)
(* the text stored for that file.                                          *)
C13_ComputedOnce ==
    /\ \A p \in DOMAIN runs : runs[p] <= 1
    /\ \A p \in {q[2].module_path : q \in Records} :
          \A r \in {x \in Inlinings(p) : IsFile(p)} :
              /\ p \in DOMAIN bundler.bundled_code
              /\ r[2].code = bundler.bundled_code[p]

C13_Witness ==
    /\ pc = "done"
    /\ \E p \in DOMAIN runs :
          /\ runs[p] = 1
          /\ Cardinality(Inlinings(p)) >= 2

\* the path the next step hands to process_module: that of the statement
\* (or of the alias) being visited, None when the step is no such visit
OccurrenceTarget ==
    IF pc = "running" /\ stack # <<>> /\ Top.kind = "file" /\ Top.st = "visit"
          /\ Top.pos <= Len(TopSrc)
    THEN IF TopNode.k = "import"
         THEN IF Top.ai <= Len(TopNode.names)
              THEN find_module(bundler, TopNode.names[Top.ai].name)
              ELSE None
         ELSE IF TopNode.level > 0
              THEN RelativePath(Top.path, TopNode.level, TopNode.module)
              ELSE find_module(bundler, TopNode.module)
    ELSE None
\* the file the next round of a package walk hands to import_file
MemberTarget ==
    IF pc = "running" /\ stack # <<>> /\ Top.kind = "pkg"
          /\ Top.idx <= Len(PackageItems(Top))
    THEN LET item == PackageItems(Top)[Top.idx]
             path == Top.path \o <<item>>
         IN  IF Top.from_import /\ \A i \in 1..Len(Top.names) : Top.names[i].name # "*"
             THEN find_module(bundler, item)
             ELSE IF IsFile(path) /\ HasSuffixPy(item) /\ ~IsPrivateName(item)
                  THEN path ELSE None
    ELSE None
\* the top-level-inlined set
Marked == bundler.top_level_imports_paths

(* C14.  During a bundle call the top-level-inlined set only grows, and an *)
(* import occurrence of a path that is in the set, in any file, at any     *)
(* column and also as a member of a package walk, adds the empty text.     *)
C14_MarkedStaysMarked ==
    [][pc = "running" =>
          /\ Marked \subseteq bundler'.top_level_imports_paths
          /\ (OccurrenceTarget # None /\ OccurrenceTarget \in Marked) =>
                /\ Len(stack') = Len(stack)
                /\ Len(stack'[Len(stack)].imports) = Len(Top.imports) + 1
                /\ LET rec == stack'[Len(stack)].imports[Len(Top.imports) + 1]
                   IN  /\ rec.lineno = Top.pos
                       /\ rec.module_path = OccurrenceTarget
                       /\ rec.code = <<>>
          /\ (MemberTarget # None /\ MemberTarget \in Marked) =>
                /\ Len(stack') = Len(stack)
                /\ stack'[Len(stack)].code = Append(Top.code, <<>>)]_vars

C14_Witness ==
    /\ pc = "running"
    /\ MemberTarget # None
    /\ MemberTarget \in Marked
    /\ MemberTarget \in DOMAIN bundler.bundled_code
    /\ bundler.bundled_code[MemberTarget] # <<>>

\* the step inlines the file p at the statement being visited: it enters
\* process_imports for p, or it records the text stored for p
InlinesNow(p) ==
    \/ /\ Len(stack') = Len(stack) + 1
       /\ stack'[Len(stack')].kind = "file"
       /\ stack'[Len(stack')].path = p
    \/ /\ Len(stack') = Len(stack)
       /\ p \in DOMAIN bundler.bundled_code
       /\ Len(stack'[Len(stack)].imports) = Len(Top.imports) + 1
       /\ LET rec == stack'[Len(stack)].imports[Len(Top.imports) + 1]
          IN  rec.module_path = p /\ ~rec.dup /\ rec.code = bundler.bundled_code[p]

(* C15.  A nested import (column > 0) of a local file that is not in the   *)
(* top-level-inlined set and is not being processed is inlined at its      *)
(* place and leaves the file out of the set; a column-0 import of a file   *)
(* that is not in the set and was processed before (by nested imports) is  *)
(* inlined again with the file's stored text, and puts the file in the set.*)
C15_NestedImportNotMarked ==
    [][(OccurrenceTarget # None /\ IsFile(OccurrenceTarget)
            /\ OccurrenceTarget \notin Marked
            /\ ~(/\ OccurrenceTarget \in bundler.processed_files
                 /\ OccurrenceTarget \notin DOMAIN bundler.bundled_code)
            /\ (TopNode.col > 0 \/ OccurrenceTarget \in DOMAIN bundler.bundled_code)) =>
          /\ pc' = "running"
          /\ InlinesNow(OccurrenceTarget)
          /\ TopNode.col > 0 => OccurrenceTarget \notin bundler'.top_level_imports_paths
          /\ TopNode.col = 0 => OccurrenceTarget \in bundler'.top_level_imports_paths]_vars

C15_Witness ==
    /\ pc = "done"
    /\ \E p \in DOMAIN disk.files :
          /\ \E r \in Inlinings(p) : r[2].col > 0
          /\ \E r \in Inlinings(p) : r[2].col = 0 /\ r[1] = entry_path
          /\ \A ln \in BodyLines(p) : Cardinality(Copies(BundleText, p, ln)) = 2
          /\ BodyLines(p) # {}

----------------------------------------------------------------------------
(* The splice: own lines and indentation.                                  *)

\* where line ln of the file p stands, unindented, in the text
OwnPlaces(text, p, ln) ==
    {k \in 1..Len(text) : text[k] = [src |-> Real(p), ln |-> ln, ind |-> 0, part |-> 0]}

(* C16, as claimed.  Splicing frame: in the processed text of a file every *)
(* line of the file that is no import statement stands exactly once,       *)
(* unchanged, and these lines keep their order, the lines after the last   *)
(* import included.  The code cuts the source with str.splitlines(), which *)
(* breaks a line at a form feed where ast.parse does not.                  *)
C16_SplicingFrame ==
    \A p \in DOMAIN bundler.bundled_code :
        LET text == bundler.bundled_code[p]
        IN  /\ \A i \in BodyLines(p) : Cardinality(OwnPlaces(text, p, i)) = 1
            /\ \A i, j \in BodyLines(p) :
                  i < j => \A k \in OwnPlaces(text, p, i) :
                               \A l \in OwnPlaces(text, p, j) : k < l
            /\ \A k \in 1..Len(text) :
                  text[k].src = Real(p) =>
                      text[k].ind = 0 /\ text[k].ln \in 1..Len(disk.files[Real(p)])

\* the text has the lines of code, each with col more indentation, in a row
HasIndented(text, code, col) ==
    \E k \in 0..(Len(text) - Len(code)) :
        \A i \in 1..Len(code) : text[k + i] = [code[i] EXCEPT !.ind = @ + col]

\* the files an import record brought in: the file itself, or the files
\* taken from a package
FilesOf(f, rec) ==
    IF IsDir(rec.module_path)
    THEN InlinedFrom(disk.files[Real(f)][rec.lineno], rec.module_path)
    ELSE {rec.module_path}
\* <<file, indentation>>: the files reached from the entry file through
\* import records that inlined text, with the sum of the columns of the
\* statements on the way
RECURSIVE ChainsFrom(_)
ChainsFrom(seen) ==
    LET more == seen \cup
            UNION {UNION {{<<q, c[2] + plans[c[1]][k].col>> :
                              q \in FilesOf(c[1], plans[c[1]][k])} :
                          k \in {j \in 1..Len(plans[c[1]]) :
                                    ~plans[c[1]][j].dup /\ plans[c[1]][j].code # <<>>}} :
                   c \in {d \in seen : d[1] \in DOMAIN plans}}
    IN  IF more = seen THEN seen ELSE ChainsFrom(more)

(* C17.  Indentation of inlined text: the processed text of a file holds,  *)
(* for every import record that inlined text, the lines of that text each  *)
(* with the statement's column added to its indentation; so in the output  *)
(* of a bundle a line of a file is indented by the sum of the columns of   *)
(* the import statements on a chain from the entry file to that file.      *)
C17_IndentBySum ==
    /\ \A f \in DOMAIN plans : \A k \in 1..Len(plans[f]) :
          (~plans[f][k].dup /\ plans[f][k].code # <<>>) =>
              HasIndented(bundler.bundled_code[f], plans[f][k].code, plans[f][k].col)
    /\ pc = "done" =>
          \A i \in 1..Len(BundleText) :
              BundleText[i].src # None =>
                  \E c \in ChainsFrom({<<entry_path, 0>>}) :
                      BundleText[i].src = Real(c[1]) /\ BundleText[i].ind = c[2]

C17_Witness ==
    /\ pc = "done"
    /\ \E i \in 1..Len(BundleText) :
          /\ BundleText[i].ind = 2
          /\ BundleText[i].src = Base \o <<"a.py">>
    /\ \E f \in DOMAIN plans \ {entry_path} : \E k \in 1..Len(plans[f]) :
          plans[f][k].col = 1 /\ ~plans[f][k].dup /\ plans[f][k].code # <<>>

----------------------------------------------------------------------------
(* The search roots.                                                       *)

\* what one search root has for a specifier: the file, else the package
\* directory, else nothing
MatchIn(root, module) ==
    IF Exists(root \o WithSuffixPy(Split(module)))
    THEN root \o WithSuffixPy(Split(module))
    ELSE IF IsDir(root \o Split(module))
            /\ Exists(root \o Split(module) \o <<"__init__.py">>)
         THEN root \o Split(module)
         ELSE None

(* C18.  Resolver order: the bundler searches baseDir first and the extra  *)
(* include path after it; for every absolute specifier of a visited import *)
(* find_module gives the match of the first root that has one, gives       *)
(* no match exactly when no root has one, and every import record of an    *)
(* absolute import holds such a first match.                               *)
C18_FirstRootWins ==
    /\ pc # "idle" => bundler.include_paths = <<Base>> \o <<Inc>>
    /\ \A v \in Reached : \A sp \in Specifiers(NodeOf(v)) :
          LET r == find_module(bundler, sp)
              roots == bundler.include_paths
          IN  /\ r = None <=> \A i \in 1..Len(roots) : MatchIn(roots[i], sp) = None
              /\ r # None =>
                    \E i \in 1..Len(roots) :
                        /\ r = MatchIn(roots[i], sp)
                        /\ \A j \in 1..(i - 1) : MatchIn(roots[j], sp) = None
    /\ \A f \in DOMAIN plans : \A k \in 1..Len(plans[f]) :
          LET rec == plans[f][k]
              node == disk.files[Real(f)][rec.lineno]
          IN  (rec.module_path # <<>> /\ node.level = 0) =>
                  \E sp \in Specifiers(node) :
                      \E i \in 1..Len(SearchRoots) :
                          /\ rec.module_path = MatchIn(SearchRoots[i], sp)
                          /\ \A j \in 1..(i - 1) : MatchIn(SearchRoots[j], sp) = None

C18_Witness ==
    /\ pc = "done"
    /\ IsFile(Base \o <<"a.py">>) /\ IsFile(Inc \o <<"a.py">>)
    /\ \E k \in 1..Len(plans[entry_path]) :
          /\ plans[entry_path][k].module_path = Base \o <<"a.py">>
          /\ ~plans[entry_path][k].dup
    /\ \E k \in 1..Len(plans[entry_path]) : plans[entry_path][k].module_path = Inc \o <<"b.py">>
    /\ \E i \in 1..Len(BundleText) : BundleText[i].src = Base \o <<"a.py">>
    /\ \A i \in 1..Len(BundleText) : BundleText[i].src # Inc \o <<"a.py">>

----------------------------------------------------------------------------
(* What an elided import relies on.                                        *)

(* C19, as claimed.  Soundness of the top-level marks: when a bundle ends, *)
(* every import record elided as a duplicate of a local file has that      *)
(* file's own lines in the output with no indentation added.               *)
C19_ElidedBodyAtFileScope ==
    pc = "done" =>
        \A f \in DOMAIN plans : \A k \in 1..Len(plans[f]) :
            (plans[f][k].dup /\ IsFile(plans[f][k].module_path)) =>
                \A ln \in BodyLines(plans[f][k].module_path) :
                    \E i \in 1..Len(BundleText) :
                        BundleText[i] = [src |-> Real(plans[f][k].module_path), ln |-> ln,
                                         ind |-> 0, part |-> 0]

\* the names an import statement binds: the alias, else the first component
\* of the module for "import", the imported name for "from ... import"
Binds(line) ==
    {IF line.names[i].asname # "" THEN line.names[i].asname
     ELSE IF line.k = "import" THEN Split(line.names[i].name)[1]
     ELSE line.names[i].name : i \in 1..Len(line.names)}

(* C20, as claimed.  Binding preservation of skipped externals: when a     *)
(* bundle ends, every visited statement of external modules that was left  *)
(* out of its file's text binds only names that column-0 import statements *)
(* visited before it and kept in their file's text bind.                   *)
C20_BindingsPreserved ==
    pc = "done" =>
        \A k \in 1..Len(trail) :
            (OnlyExternal(NodeOf(trail[k])) /\ ~Kept(k)) =>
                Binds(NodeOf(trail[k])) \subseteq
                    UNION {Binds(NodeOf(trail[j])) :
                             j \in {i \in 1..(k - 1) :
                                       /\ NodeOf(trail[i]).col = 0
                                       /\ IsImportNode(NodeOf(trail[i]))
                                       /\ Kept(i)}}

====
